---------------------------- MODULE Spec2Model ----------------------------
(***************************************************************************)
(* Sortify: the batch driver (main.rs), the per-file decision              *)
(* (process_file, resolve_extension, is_binary), the binary policy         *)
(* (prompt.rs) and the category table (classify.rs).                       *)
(*                                                                         *)
(* A byte prefix is a sequence of numbers 0..255.  A file is a record      *)
(* [ext, bytes, self]: the raw extension of its name (None when the name   *)
(* has none), its leading bytes on disk, and whether its canonical path is *)
(* the running executable.  A file is identified by its position in the    *)
(* enumeration (paths of one directory are distinct).                      *)
(***************************************************************************)
EXTENDS Integers, Sequences, FiniteSets, TLC

\* Option::None, for every Option<&str> / Option<String> of the source.
None == "<none>"

\* Number of files collect_files may return.
MaxFiles == 2

HEADER_CAP == 64

Min(S) ==
    CHOOSE x \in S : \A y \in S : x <= y

(***************************************************************************)
(* detect.rs: signature tables                                             *)
(***************************************************************************)
FIXED_SIGNATURES ==
    << [pattern |-> <<137, 80, 78, 71, 13, 10, 26, 10>>, offset |-> 0, ext |-> "png"],
       [pattern |-> <<255, 216, 255>>, offset |-> 0, ext |-> "jpg"],
       [pattern |-> <<71, 73, 70, 56, 55, 97>>, offset |-> 0, ext |-> "gif"],
       [pattern |-> <<71, 73, 70, 56, 57, 97>>, offset |-> 0, ext |-> "gif"],
       [pattern |-> <<66, 77>>, offset |-> 0, ext |-> "bmp"],
       [pattern |-> <<37, 80, 68, 70>>, offset |-> 0, ext |-> "pdf"],
       [pattern |-> <<37, 33, 80, 83, 45, 65, 100, 111, 98, 101, 45>>, offset |-> 0, ext |-> "ps"],
       [pattern |-> <<80, 75, 3, 4>>, offset |-> 0, ext |-> "zip"],
       [pattern |-> <<31, 139, 8>>, offset |-> 0, ext |-> "gz"],
       [pattern |-> <<26, 69, 223, 163>>, offset |-> 0, ext |-> "mkv"],
       [pattern |-> <<87, 69, 66, 80>>, offset |-> 8, ext |-> "webp"],
       [pattern |-> <<73, 68, 51>>, offset |-> 0, ext |-> "mp3"],
       [pattern |-> <<79, 103, 103, 83>>, offset |-> 0, ext |-> "ogg"],
       [pattern |-> <<102, 76, 97, 67>>, offset |-> 0, ext |-> "flac"],
       [pattern |-> <<0, 0, 1, 0>>, offset |-> 0, ext |-> "ico"],
       [pattern |-> <<73, 73, 42, 0>>, offset |-> 0, ext |-> "tif"],
       [pattern |-> <<77, 77, 0, 42>>, offset |-> 0, ext |-> "tif"],
       [pattern |-> <<82, 97, 114, 33, 26, 7, 0>>, offset |-> 0, ext |-> "rar"],
       [pattern |-> <<55, 122, 188, 175, 39, 28>>, offset |-> 0, ext |-> "7z"] >>

BINARY_SIGNATURES ==
    << [pattern |-> <<77, 90>>, offset |-> 0, ext |-> "exe"],
       [pattern |-> <<127, 69, 76, 70>>, offset |-> 0, ext |-> "elf"],
       [pattern |-> <<202, 254, 186, 190>>, offset |-> 0, ext |-> "mach-o"],
       [pattern |-> <<207, 250, 237, 254>>, offset |-> 0, ext |-> "mach-o"],
       [pattern |-> <<254, 237, 250, 207>>, offset |-> 0, ext |-> "mach-o"],
       [pattern |-> <<254, 237, 250, 206>>, offset |-> 0, ext |-> "mach-o"],
       [pattern |-> <<0, 97, 115, 109>>, offset |-> 0, ext |-> "wasm"] >>

\* The labels is_binary counts as binary when detect_fixed returns them.
BinaryFixedLabels ==
    {"png", "jpg", "gif", "bmp", "pdf", "ps", "webp", "mkv", "ico", "tif",
     "gz", "rar", "7z", "mp3", "ogg", "flac", "zip"}

(***************************************************************************)
(* detect.rs: reading and matching                                         *)
(***************************************************************************)
\* read_prefix on a readable file: the first min(cap, file size) bytes.
read_prefix(bytes, cap) ==
    SubSeq(bytes, 1, IF cap < Len(bytes) THEN cap ELSE Len(bytes))

starts_with_at(buf, offset, pat) ==
    /\ Len(buf) >= offset + Len(pat)
    /\ \A i \in 1..Len(pat) : buf[offset + i] = pat[i]

contains(buf, pat) ==
    IF Len(pat) = 0 \/ Len(buf) < Len(pat)
    THEN FALSE
    ELSE \E o \in 0..(Len(buf) - Len(pat)) : starts_with_at(buf, o, pat)

\* detect_mp4_like without the default arm: an unlisted brand is no match.
detect_mp4_like_NoDefault(buf) ==
    IF Len(buf) < 12 \/ ~starts_with_at(buf, 4, <<102, 116, 121, 112>>)
    THEN None
    ELSE LET brand == SubSeq(buf, 9, 12)
         IN  CASE brand \in { <<105, 115, 111, 109>>, <<105, 115, 111, 50>>,
                              <<109, 112, 52, 49>>, <<109, 112, 52, 50>>,
                              <<97, 118, 99, 49>>, <<77, 83, 78, 86>>,
                              <<109, 112, 55, 49>> } -> "mp4"
               [] brand = <<77, 52, 86, 32>> -> "m4v"
               [] brand = <<77, 52, 65, 32>> -> "m4a"
               [] brand = <<77, 52, 66, 32>> -> "m4b"
               [] brand = <<113, 116, 32, 32>> -> "mov"
               [] OTHER -> None

detect_mp4_like(buf) ==
    IF Len(buf) < 12 \/ ~starts_with_at(buf, 4, <<102, 116, 121, 112>>)
    THEN None
    ELSE LET brand == SubSeq(buf, 9, 12)
         IN  CASE brand \in { <<105, 115, 111, 109>>, <<105, 115, 111, 50>>,
                              <<109, 112, 52, 49>>, <<109, 112, 52, 50>>,
                              <<97, 118, 99, 49>>, <<77, 83, 78, 86>>,
                              <<109, 112, 55, 49>> } -> "mp4"
               [] brand = <<77, 52, 86, 32>> -> "m4v"
               [] brand = <<77, 52, 65, 32>> -> "m4a"
               [] brand = <<77, 52, 66, 32>> -> "m4b"
               [] brand = <<113, 116, 32, 32>> -> "mov"
               [] OTHER -> "mp4"

detect_riff_typed(buf) ==
    IF Len(buf) < 12 \/ ~starts_with_at(buf, 0, <<82, 73, 70, 70>>)
    THEN None
    ELSE LET form == SubSeq(buf, 9, 12)
         IN  CASE form = <<87, 69, 66, 80>> -> "webp"
               [] form = <<87, 65, 86, 69>> -> "wav"
               [] form = <<65, 86, 73, 32>> -> "avi"
               [] OTHER -> None

\* detect_zip_like testing META-INF/ before the office and apk names.
detect_zip_like_JarFirst(buf) ==
    IF ~starts_with_at(buf, 0, <<80, 75, 3, 4>>)
    THEN None
    ELSE IF contains(buf, <<77, 69, 84, 65, 45, 73, 78, 70, 47>>)
         THEN "jar"
    ELSE IF \/ contains(buf, <<91, 67, 111, 110, 116, 101, 110, 116, 95, 84,
                               121, 112, 101, 115, 93, 46, 120, 109, 108>>)
            \/ contains(buf, <<119, 111, 114, 100, 47>>)
         THEN "docx"
    ELSE IF contains(buf, <<120, 108, 47>>)
         THEN "xlsx"
    ELSE IF contains(buf, <<112, 112, 116, 47>>)
         THEN "pptx"
    ELSE IF contains(buf, <<65, 110, 100, 114, 111, 105, 100, 77, 97, 110,
                            105, 102, 101, 115, 116, 46, 120, 109, 108>>)
         THEN "apk"
    ELSE "zip"

detect_zip_like(buf) ==
    IF ~starts_with_at(buf, 0, <<80, 75, 3, 4>>)
    THEN None
    ELSE IF \/ contains(buf, <<91, 67, 111, 110, 116, 101, 110, 116, 95, 84,
                               121, 112, 101, 115, 93, 46, 120, 109, 108>>)
            \/ contains(buf, <<119, 111, 114, 100, 47>>)
         THEN "docx"
    ELSE IF contains(buf, <<120, 108, 47>>)
         THEN "xlsx"
    ELSE IF contains(buf, <<112, 112, 116, 47>>)
         THEN "pptx"
    ELSE IF contains(buf, <<65, 110, 100, 114, 111, 105, 100, 77, 97, 110,
                            105, 102, 101, 115, 116, 46, 120, 109, 108>>)
         THEN "apk"
    ELSE IF contains(buf, <<77, 69, 84, 65, 45, 73, 78, 70, 47>>)
         THEN "jar"
    ELSE "zip"

\* u8::is_ascii_whitespace: space, tab, LF, FF, CR.
is_ascii_whitespace(b) ==
    b \in {32, 9, 10, 12, 13}

detect_json(buf) ==
    LET start == IF starts_with_at(buf, 0, <<239, 187, 191>>) THEN 3 ELSE 0
        rest  == SubSeq(buf, start + 1, Len(buf))
        nonws == {i \in 1..Len(rest) : ~is_ascii_whitespace(rest[i])}
    IN  IF nonws = {}
        THEN None
        ELSE LET first_char == rest[Min(nonws)]
             IN  IF /\ first_char \in {123, 91}
                    /\ \E i \in 1..Len(rest) : rest[i] \in {34, 58, 44}
                 THEN "json"
                 ELSE None

detect_fixed(buf) ==
    LET hits == {i \in 1..Len(FIXED_SIGNATURES) :
                    starts_with_at(buf, FIXED_SIGNATURES[i].offset,
                                   FIXED_SIGNATURES[i].pattern)}
    IN  IF hits = {} THEN None ELSE FIXED_SIGNATURES[Min(hits)].ext

\* looks_binary with the threshold reached rather than exceeded.
looks_binary_AtLeast(buf) ==
    IF Len(buf) = 0
    THEN FALSE
    ELSE IF \E i \in 1..Len(buf) : buf[i] = 0
    THEN TRUE
    ELSE LET non_text ==
                 Cardinality({i \in 1..Len(buf) :
                     ~(buf[i] \in {9, 10, 13} \/ (buf[i] >= 32 /\ buf[i] <= 126))})
         IN  10 * non_text >= 3 * Len(buf)

\* The source divides as f32; for a prefix of at most HEADER_CAP bytes the
\* quotient k/n rounds to the f32 of 0.30 exactly when 10k = 3n, so the f32
\* comparison is the exact one.
looks_binary(buf) ==
    IF Len(buf) = 0
    THEN FALSE
    ELSE IF \E i \in 1..Len(buf) : buf[i] = 0
    THEN TRUE
    ELSE LET non_text ==
                 Cardinality({i \in 1..Len(buf) :
                     ~(buf[i] \in {9, 10, 13} \/ (buf[i] >= 32 /\ buf[i] <= 126))})
         IN  10 * non_text > 3 * Len(buf)

detect_by_signature_buf(buf) ==
    IF Len(buf) = 0 THEN None
    ELSE IF detect_mp4_like(buf) # None THEN detect_mp4_like(buf)
    ELSE IF detect_riff_typed(buf) # None THEN detect_riff_typed(buf)
    ELSE IF detect_zip_like(buf) # None THEN detect_zip_like(buf)
    ELSE IF detect_json(buf) # None THEN detect_json(buf)
    ELSE detect_fixed(buf)

\* is_binary after its read_prefix succeeded.
is_binary_buf(buf) ==
    IF Len(buf) = 0 THEN FALSE
    ELSE IF \E i \in 1..Len(BINARY_SIGNATURES) :
                starts_with_at(buf, BINARY_SIGNATURES[i].offset,
                               BINARY_SIGNATURES[i].pattern)
    THEN TRUE
    ELSE IF \/ detect_mp4_like(buf) # None
            \/ detect_riff_typed(buf) # None
            \/ detect_zip_like(buf) # None
            \/ detect_fixed(buf) \in BinaryFixedLabels
    THEN TRUE
    ELSE IF detect_json(buf) # None THEN FALSE
    ELSE looks_binary(buf)

(***************************************************************************)
(* detect.rs: the declared extension                                       *)
(***************************************************************************)
\* str::to_ascii_lowercase on the extension strings that occur in the model.
to_ascii_lowercase(s) ==
    CASE s = "PDF" -> "pdf"
      [] s = "Png" -> "png"
      [] s = "JPG" -> "jpg"
      [] s = "TXT" -> "txt"
      [] OTHER -> s

\* ext_from_path without the lower-casing.
ext_from_path_NoLowercase(path) ==
    path.ext

ext_from_path(path) ==
    IF path.ext = None THEN None ELSE to_ascii_lowercase(path.ext)

unwrap_or(opt, default) ==
    IF opt = None THEN default ELSE opt

\* ResolveResult; mismatch is <<>> for None and <<sig, real>> for Some.
ResolveResult(e, m) ==
    [ext |-> e, mismatch |-> m]

(***************************************************************************)
(* classify.rs                                                             *)
(***************************************************************************)
from_ext(e) ==
    LET x == to_ascii_lowercase(e)
    IN  CASE x = "mismatch" -> "Mismatch"
          [] x \in {"mp4", "m4v", "mov", "mkv", "avi", "webm", "flv", "wmv",
                    "mpg", "mpeg", "3gp", "ogv", "ts", "vob"} -> "Video"
          [] x \in {"mp3", "wav", "flac", "ogg", "m4a", "aac", "opus",
                    "wma", "ape", "alac", "aiff", "dsf", "dsd"} -> "Audio"
          [] x \in {"png", "jpg", "jpeg", "gif", "bmp", "webp", "tiff", "tif",
                    "svg", "ico", "heic", "heif", "raw", "cr2", "nef",
                    "arw", "dng", "psd", "ai", "eps"} -> "Pictures"
          [] x \in {"pdf", "doc", "docx", "xls", "xlsx", "ppt", "pptx",
                    "txt", "md", "rtf", "odt", "ods", "odp",
                    "csv", "epub", "mobi", "djvu"} -> "Documents"
          [] x \in {"zip", "7z", "rar", "gz", "tar", "tgz", "bz2",
                    "xz", "zst", "lz4", "cab", "iso", "dmg"} -> "Archives"
          [] x \in {"exe", "msi", "elf", "app", "mach-o", "wasm",
                    "dll", "so", "dylib", "bin"} -> "Executables"
          [] x \in {"rs", "py", "js", "jsx", "tsx", "c", "cpp", "h", "hpp",
                    "java", "go", "rb", "php", "swift", "kt", "cs", "html", "css",
                    "scss", "sass", "less", "vue", "svelte", "sh", "bash", "zsh",
                    "fish", "ps1", "bat", "cmd", "yaml", "yml", "json", "toml",
                    "xml", "ini", "conf", "config", "env", "gitignore",
                    "dockerfile", "makefile", "cmake", "sql"} -> "Code"
          [] OTHER -> "Uncategorized"

dir_name(category) ==
    IF category = "Mismatch" THEN "Check manually" ELSE category

(***************************************************************************)
(* prompt.rs                                                               *)
(***************************************************************************)
\* The index Select::interact returns: both prompts offer four items.
Choices == 0..3

\* ask_binary_policy_once with "process once" also switching the policy.
ask_binary_policy_once_Sticky(choice) ==
    CASE choice = 0 -> <<"Skip", "AskEvery">>
      [] choice = 1 -> <<"Skip", "SkipAll">>
      [] choice = 2 -> <<"Process", "NeverSkip">>
      [] choice = 3 -> <<"Process", "NeverSkip">>

\* ask_binary_policy_once once interact has returned `choice`.
ask_binary_policy_once(choice) ==
    CASE choice = 0 -> <<"Skip", "AskEvery">>
      [] choice = 1 -> <<"Skip", "SkipAll">>
      [] choice = 2 -> <<"Process", "AskEvery">>
      [] choice = 3 -> <<"Process", "NeverSkip">>

\* Whether BinaryPolicy::decide suspends on the prompt.
decide_asks(self) ==
    self = "AskEvery"

\* decide with SkipAll letting the file through.
decide_SkipAllProcesses(self, choice) ==
    CASE self = "AskEvery" -> ask_binary_policy_once(choice)
      [] self = "SkipAll" -> <<"Process", "SkipAll">>
      [] self = "NeverSkip" -> <<"Process", "NeverSkip">>

\* decide with SkipAll falling back to asking for the next file.
decide_SkipAllForgets(self, choice) ==
    CASE self = "AskEvery" -> ask_binary_policy_once(choice)
      [] self = "SkipAll" -> <<"Skip", "AskEvery">>
      [] self = "NeverSkip" -> <<"Process", "NeverSkip">>

\* BinaryPolicy::decide; `choice` is read only on the branch that prompts.
decide(self, choice) ==
    CASE self = "AskEvery" -> ask_binary_policy_once(choice)
      [] self = "SkipAll" -> <<"Skip", "SkipAll">>
      [] self = "NeverSkip" -> <<"Process", "NeverSkip">>

\* ask_conflict_resolution with the second and third answers exchanged.
ask_conflict_resolution_Swapped(choice, sig_ext, real_ext) ==
    CASE choice = 0 -> [kind |-> "Skip", chosen |-> None]
      [] choice = 1 -> [kind |-> "ByExtension", chosen |-> real_ext]
      [] choice = 2 -> [kind |-> "BySignature", chosen |-> sig_ext]
      [] choice = 3 -> [kind |-> "Mismatched", chosen |-> None]

\* ask_conflict_resolution once interact has returned `choice`.
ask_conflict_resolution(choice, sig_ext, real_ext) ==
    CASE choice = 0 -> [kind |-> "Skip", chosen |-> None]
      [] choice = 1 -> [kind |-> "BySignature", chosen |-> sig_ext]
      [] choice = 2 -> [kind |-> "ByExtension", chosen |-> real_ext]
      [] choice = 3 -> [kind |-> "Mismatched", chosen |-> None]

(***************************************************************************)
(* detect.rs: resolve_extension                                            *)
(***************************************************************************)
\* The extension-only branch returning the extension as written in the name.
resolve_ext_only_NoLowercase(path) ==
    ResolveResult(unwrap_or(path.ext, "unknown"), <<>>)

\* The extension-only branch: no read, no detection.
resolve_ext_only(path) ==
    ResolveResult(unwrap_or(ext_from_path(path), "unknown"), <<>>)

\* resolve_extension prompting on a mismatch in a dry run too.
resolve_asks_IgnoresDryRun(path, dry_run, buf) ==
    LET sig_ext == detect_by_signature_buf(buf)
        actual  == ext_from_path(path)
    IN  sig_ext # None /\ actual # None /\ actual # sig_ext

\* Whether resolve_extension, having read `buf`, suspends on the mismatch prompt.
resolve_asks(path, dry_run, buf) ==
    LET sig_ext == detect_by_signature_buf(buf)
        actual  == ext_from_path(path)
    IN  sig_ext # None /\ actual # None /\ actual # sig_ext /\ ~dry_run

\* resolve_extension dropping the pair of a dry-run mismatch.
resolve_by_signature_NoPair(path, dry_run, buf) ==
    LET sig_ext == detect_by_signature_buf(buf)
        actual  == ext_from_path(path)
    IN  IF sig_ext # None
        THEN ResolveResult(sig_ext, <<>>)
        ELSE ResolveResult(unwrap_or(actual, "unknown"), <<>>)

\* resolve_extension on the branches that return without prompting.
resolve_by_signature(path, dry_run, buf) ==
    LET sig_ext == detect_by_signature_buf(buf)
        actual  == ext_from_path(path)
    IN  IF sig_ext # None
        THEN IF actual # None /\ actual # sig_ext /\ dry_run
             THEN ResolveResult(sig_ext, <<sig_ext, actual>>)
             ELSE ResolveResult(sig_ext, <<>>)
        ELSE ResolveResult(unwrap_or(actual, "unknown"), <<>>)

\* resolve_extension's match on the answer of the mismatch prompt.
resolve_conflict(resolution, sig_ext, actual) ==
    CASE resolution.kind = "Skip" -> ResolveResult(None, <<>>)
      [] resolution.kind = "BySignature" -> ResolveResult(resolution.chosen, <<>>)
      [] resolution.kind = "ByExtension" -> ResolveResult(resolution.chosen, <<>>)
      [] resolution.kind = "Mismatched" -> ResolveResult("mismatch", <<sig_ext, actual>>)

(***************************************************************************)
(* The files a directory may hold                                          *)
(***************************************************************************)
File(e, b, own) ==
    [ext |-> e, bytes |-> b, self |-> own]

Catalogue ==
    { File("pdf", <<37, 80, 68, 70, 45, 49, 46, 52>>, FALSE),       \* report.pdf, %PDF-1.4
      File("PDF", <<37, 80, 68, 70, 45, 49, 46, 52>>, FALSE),       \* REPORT.PDF
      File("png", <<77, 90, 144, 0>>, FALSE),                       \* photo.png, MZ..
      File("txt", <<123, 34, 97, 34, 58, 49, 125>>, FALSE),         \* data.txt, {"a":1}
      File("txt", <<104, 101, 108, 108, 111>>, FALSE),              \* notes.txt, hello
      File("JPG", <<137, 80, 78, 71, 13, 10, 26, 10>>, FALSE),      \* IMAGE.JPG, PNG magic
      File(None, <<104, 101, 108, 108, 111>>, FALSE),               \* README, hello
      File(None, <<37, 80, 68, 70, 45, 49, 46, 52>>, FALSE),        \* scan, %PDF-1.4
      File("TXT", <<>>, FALSE),                                     \* EMPTY.TXT, no bytes
      File(None, <<127, 69, 76, 70, 2, 1>>, TRUE) }                 \* the running executable

\* collect_files: any enumeration; at most one path is the running executable.
Batches ==
    { b \in UNION { [1..n -> Catalogue] : n \in 0..MaxFiles } :
        Cardinality({i \in DOMAIN b : b[i].self}) <= 1 }

(***************************************************************************)
(* State                                                                   *)
(***************************************************************************)
VARIABLES
    args,       \* Args: ext_only, dry_run
    entries,    \* the enumerated files, in processing order
    idx,        \* files main's loop has finished (pb position)
    pc,         \* where the batch is: main, ask_conflict, is_binary, ask_binary, move, done, aborted
    policy,     \* main's BinaryPolicy
    result,     \* ProcessingResult: moved, skipped, warnings
    ext,        \* process_file's resolved extension of the current file
    conflict,   \* <<sig_ext, actual>> while the mismatch prompt is open
    err,        \* the error main returns: none, read, prompt, move
    hist,       \* per file: what process_file did for it
    probe       \* one prefix taken through read_prefix, detect_by_signature_buf, is_binary

vars == <<args, entries, idx, pc, policy, result, ext, conflict, err, hist, probe>>

\* The file process_file is working on.
cur == idx + 1

\* No prefix under detection.
NoProbe ==
    [stage |-> "idle", input |-> [family |-> "none", bytes |-> <<>>, n |-> 0, k |-> 0, zero |-> FALSE],
     buf |-> <<>>, sig |-> None, bin |-> FALSE, looks |-> FALSE]

NoHist ==
    [reads |-> 0, conflictPrompts |-> 0, conflictChoice |-> -1,
     binaryPrompts |-> 0, binaryChoice |-> -1,
     res |-> ResolveResult("<unresolved>", <<>>), resolved |-> FALSE,
     binary |-> "unknown", decidedFrom |-> "none", action |-> "none",
     decidedTo |-> "none",
     policyAfter |-> "none", moveTo |-> "none"]

Init ==
    /\ args \in [ext_only : BOOLEAN, dry_run : BOOLEAN]
    /\ entries \in Batches
    /\ idx = 0
    /\ pc = "main"
    /\ policy = "AskEvery"
    /\ result = [moved |-> <<>>, skipped |-> <<>>, warnings |-> <<>>]
    /\ ext = None
    /\ conflict = <<>>
    /\ err = "none"
    /\ hist = [i \in DOMAIN entries |-> NoHist]
    /\ probe = NoProbe

(***************************************************************************)
(* main.rs: process_file, cut at the points where it blocks or reads       *)
(***************************************************************************)
\* `return Ok(())` with the file in result.skipped; main's loop moves on.
SkipFile(h, p, warn) ==
    /\ result' = [result EXCEPT !.skipped = Append(@, cur),
                                !.warnings = @ \o warn]
    /\ hist' = [hist EXCEPT ![cur] = [h EXCEPT !.policyAfter = p]]
    /\ policy' = p
    /\ idx' = idx + 1
    /\ pc' = "main"
    /\ ext' = None
    /\ conflict' = <<>>
    /\ err' = err

\* An Err handled per file: the file is listed as skipped and the loop goes on.
Propagate_SkipsFile(h, e) ==
    /\ err' = e
    /\ result' = [result EXCEPT !.skipped = Append(@, cur)]
    /\ hist' = [hist EXCEPT ![cur] = h]
    /\ idx' = idx + 1
    /\ pc' = "main"
    /\ ext' = None
    /\ conflict' = <<>>
    /\ UNCHANGED policy

\* `?` on an Err: process_file returns it and main returns it, leaving the loop.
Propagate(h, e) ==
    /\ err' = e
    /\ pc' = "aborted"
    /\ hist' = [hist EXCEPT ![cur] = h]
    /\ UNCHANGED <<idx, policy, result, ext, conflict>>

\* process_file from the ResolveResult to the is_binary test.
AfterResolve(r, h) ==
    LET warn == IF r.mismatch # <<>>
                THEN << <<"mismatch", cur, r.mismatch[1], r.mismatch[2]>> >>
                ELSE <<>>
        h2   == [h EXCEPT !.res = r, !.resolved = TRUE]
    IN  IF r.ext = None
        THEN SkipFile(h2, policy, warn)
        ELSE /\ result' = [result EXCEPT !.warnings = @ \o warn]
             /\ ext' = r.ext
             /\ pc' = IF ~args.ext_only THEN "is_binary" ELSE "move"
             /\ hist' = [hist EXCEPT ![cur] = h2]
             /\ conflict' = <<>>
             /\ UNCHANGED <<idx, policy, err>>

\* main's loop enters process_file: self check, then resolve_extension up to
\* its return or its prompt.
BeginFile ==
    /\ pc = "main"
    /\ idx < Len(entries)
    /\ \E read_ok \in BOOLEAN :
         LET path == entries[cur]
             h    == hist[cur]
             hr   == [h EXCEPT !.reads = @ + 1]
             buf  == read_prefix(path.bytes, HEADER_CAP)
         IN  IF path.self
             THEN SkipFile(h, policy, <<>>)
             ELSE IF args.ext_only
             THEN AfterResolve(resolve_ext_only(path), h)
             ELSE IF ~read_ok
             THEN Propagate(hr, "read")
             ELSE IF resolve_asks(path, args.dry_run, buf)
             THEN /\ pc' = "ask_conflict"
                  /\ conflict' = <<detect_by_signature_buf(buf), ext_from_path(path)>>
                  /\ hist' = [hist EXCEPT ![cur] = [hr EXCEPT !.conflictPrompts = @ + 1]]
                  /\ UNCHANGED <<idx, policy, result, ext, err>>
             ELSE AfterResolve(resolve_by_signature(path, args.dry_run, buf), hr)
    /\ UNCHANGED <<args, entries, probe>>

\* The mismatch prompt returns: a choice, or a failure to read the input.
AnswerConflict ==
    /\ pc = "ask_conflict"
    /\ \E input \in Choices \cup {-1} :
         LET h == [hist[cur] EXCEPT !.conflictChoice = input]
         IN  IF input = -1
             THEN Propagate(h, "prompt")
             ELSE AfterResolve(
                      resolve_conflict(
                          ask_conflict_resolution(input, conflict[1], conflict[2]),
                          conflict[1], conflict[2]),
                      h)
    /\ UNCHANGED <<args, entries, probe>>

\* process_file without the return after a Skip decision: the file is listed
\* as skipped and goes on to the move.
AfterDecide_SkipFallsThrough(d, h) ==
    /\ policy' = d[2]
    /\ pc' = "move"
    /\ result' = IF d[1] = "Skip"
                 THEN [result EXCEPT !.skipped = Append(@, cur)]
                 ELSE result
    /\ hist' = [hist EXCEPT ![cur] = [h EXCEPT !.action = d[1], !.decidedTo = d[2]]]
    /\ UNCHANGED <<idx, ext, conflict, err>>

\* process_file after a binary verdict and a BinaryPolicy::decide result.
AfterDecide(d, h) ==
    IF d[1] = "Skip"
    THEN SkipFile([h EXCEPT !.action = d[1], !.decidedTo = d[2]], d[2], <<>>)
    ELSE /\ policy' = d[2]
         /\ pc' = "move"
         /\ hist' = [hist EXCEPT ![cur] = [h EXCEPT !.action = d[1], !.decidedTo = d[2]]]
         /\ UNCHANGED <<idx, result, ext, conflict, err>>

\* is_binary, then the dry-run skip or BinaryPolicy::decide up to its return
\* or its prompt.
IsBinary ==
    /\ pc = "is_binary"
    /\ \E read_ok \in BOOLEAN :
         LET path == entries[cur]
             hr   == [hist[cur] EXCEPT !.reads = @ + 1]
             buf  == read_prefix(path.bytes, HEADER_CAP)
             hb   == [hr EXCEPT !.binary = IF is_binary_buf(buf) THEN "yes" ELSE "no"]
         IN  IF ~read_ok
             THEN Propagate(hr, "read")
             ELSE IF ~is_binary_buf(buf)
             THEN /\ pc' = "move"
                  /\ hist' = [hist EXCEPT ![cur] = hb]
                  /\ UNCHANGED <<idx, policy, result, ext, conflict, err>>
             ELSE IF args.dry_run
             THEN SkipFile(hb, policy, << <<"binary", cur>> >>)
             ELSE IF decide_asks(policy)
             THEN /\ pc' = "ask_binary"
                  /\ hist' = [hist EXCEPT ![cur] = [hb EXCEPT !.decidedFrom = policy,
                                                             !.binaryPrompts = @ + 1]]
                  /\ UNCHANGED <<idx, policy, result, ext, conflict, err>>
             ELSE AfterDecide(decide(policy, -1), [hb EXCEPT !.decidedFrom = policy])
    /\ UNCHANGED <<args, entries, probe>>

\* The binary-policy prompt returns: a choice, or a failure to read the input.
AnswerBinary ==
    /\ pc = "ask_binary"
    /\ \E input \in Choices \cup {-1} :
         LET h == [hist[cur] EXCEPT !.binaryChoice = input]
         IN  IF input = -1
             THEN Propagate(h, "prompt")
             ELSE AfterDecide(decide(policy, input), h)
    /\ UNCHANGED <<args, entries, probe>>

\* Category::from_ext and move_to_category; a dry run touches no file and
\* cannot fail, a live move can.
Move ==
    /\ pc = "move"
    /\ \E move_ok \in BOOLEAN :
         LET category == from_ext(ext)
             h        == [hist[cur] EXCEPT !.moveTo = dir_name(category)]
         IN  IF ~move_ok /\ ~args.dry_run
             THEN Propagate(h, "move")
             ELSE /\ result' = [result EXCEPT
                                   !.moved = Append(@, <<cur, dir_name(category)>>)]
                  /\ hist' = [hist EXCEPT ![cur] = [h EXCEPT !.policyAfter = policy]]
                  /\ idx' = idx + 1
                  /\ pc' = "main"
                  /\ ext' = None
                  /\ UNCHANGED <<policy, conflict, err>>
    /\ UNCHANGED <<args, entries, probe>>

\* main after the loop (or on an empty directory): print and return Ok.
Finish ==
    /\ pc = "main"
    /\ idx = Len(entries)
    /\ pc' = "done"
    /\ UNCHANGED <<args, entries, idx, policy, result, ext, conflict, err, hist, probe>>

Next ==
    \/ BeginFile
    \/ AnswerConflict
    \/ IsBinary
    \/ AnswerBinary
    \/ Move
    \/ Finish

Spec ==
    Init /\ [][Next]_vars

TypeOK ==
    /\ idx \in 0..Len(entries)
    /\ pc \in {"main", "ask_conflict", "is_binary", "ask_binary", "move", "done", "aborted"}
    /\ policy \in {"AskEvery", "SkipAll", "NeverSkip"}
    /\ err \in {"none", "read", "prompt", "move"}

(***************************************************************************)
(* Observers used by the properties                                        *)
(***************************************************************************)
Files == DOMAIN entries

\* process_file returned Ok for file i.
Processed(i) == i <= idx

InMoved(i) == \E k \in DOMAIN result.moved : result.moved[k][1] = i

MovedTo(i, d) == \E k \in DOMAIN result.moved : result.moved[k] = <<i, d>>

InSkipped(i) == \E k \in DOMAIN result.skipped : result.skipped[k] = i

Warned(w) == \E k \in DOMAIN result.warnings : result.warnings[k] = w

Live == ~args.dry_run /\ ~args.ext_only

Prefix(i) == read_prefix(entries[i].bytes, HEADER_CAP)

\* The Detected Type, the lower-cased Declared Extension and the binary verdict of file i.
Detected(i) == detect_by_signature_buf(Prefix(i))

Declared(i) ==
    IF entries[i].ext = None THEN None ELSE to_ascii_lowercase(entries[i].ext)

IsBinaryFile(i) == is_binary_buf(Prefix(i))

(***************************************************************************)
(* C1                                                                      *)
(***************************************************************************)
\* C1 as stated: in a live batch, once the user answered "skip all" for some
\* file, every later binary file is skipped with no prompt of any kind raised
\* for it, and the policy is SkipAll after it.
C1_SkipAllThenNoPromptAtAll ==
    Live =>
      \A i \in Files : \A j \in Files :
        (i < j /\ hist[i].binaryChoice = 1 /\ IsBinaryFile(j)) =>
          /\ hist[j].binaryPrompts = 0
          /\ hist[j].conflictPrompts = 0
          /\ Processed(j) =>
               InSkipped(j) /\ ~InMoved(j) /\ hist[j].policyAfter = "SkipAll"

\* C1 amended: in a live batch, once the user answered "skip all" for some
\* file, the binary-policy prompt is never raised again, every later binary
\* file the batch processes is skipped and not moved, and the policy is
\* SkipAll after it (the mismatch prompt may still be raised for such a file).
C1_SkipAllThenNoBinaryPrompt ==
    Live =>
      \A i \in Files : \A j \in Files :
        (i < j /\ hist[i].binaryChoice = 1 /\ IsBinaryFile(j)) =>
          /\ hist[j].binaryPrompts = 0
          /\ Processed(j) =>
               InSkipped(j) /\ ~InMoved(j) /\ hist[j].policyAfter = "SkipAll"

\* A later binary file reached the policy under SkipAll and was skipped.
C1_Witness ==
    /\ Live
    /\ \E i \in Files : \E j \in Files :
         /\ i < j /\ hist[i].binaryChoice = 1 /\ Processed(j)
         /\ hist[j].binary = "yes" /\ hist[j].decidedFrom = "SkipAll"
         /\ hist[j].conflictPrompts = 1 /\ hist[j].conflictChoice # 0
         /\ InSkipped(j)

(***************************************************************************)
(* C2                                                                      *)
(***************************************************************************)
\* C2: in a dry run neither prompt is ever raised for any file, and the
\* policy is AskEvery in every state up to and including the end of the batch.
C2_DryRunNeverPrompts ==
    args.dry_run =>
      /\ \A i \in Files : hist[i].conflictPrompts = 0 /\ hist[i].binaryPrompts = 0
      /\ pc \notin {"ask_conflict", "ask_binary"}
      /\ policy = "AskEvery"

\* A finished dry run that met a mismatching file and a binary file.
C2_Witness ==
    /\ args.dry_run /\ ~args.ext_only /\ pc = "done"
    /\ \E i \in Files : hist[i].res.mismatch # <<>>
    /\ \E i \in Files : Warned(<<"binary", i>>)

(***************************************************************************)
(* C3                                                                      *)
(***************************************************************************)
\* The binary-indicating signatures the prefix of file i matches.
BinaryHits(i) ==
    {k \in 1..Len(BINARY_SIGNATURES) :
        starts_with_at(Prefix(i), BINARY_SIGNATURES[k].offset,
                       BINARY_SIGNATURES[k].pattern)}

\* C3 as stated: with signature detection on, a file declared "png" whose
\* prefix begins with MZ is resolved as the conflict (exe, png): a live run
\* raises the mismatch prompt for it, a dry run reports the pair; and a prefix
\* that matches a binary-indicating signature has that signature's label as
\* its Detected Type.
C3_MZDeclaredPngIsConflict ==
    ~args.ext_only =>
      \A i \in Files :
        /\ (hist[i].resolved /\ Declared(i) = "png"
               /\ starts_with_at(Prefix(i), 0, <<77, 90>>)) =>
             IF args.dry_run
             THEN /\ hist[i].res.mismatch = <<"exe", "png">>
                  /\ Warned(<<"mismatch", i, "exe", "png">>)
             ELSE hist[i].conflictPrompts = 1
        /\ (hist[i].resolved /\ BinaryHits(i) # {}) =>
             Detected(i) = BINARY_SIGNATURES[Min(BinaryHits(i))].ext

(***************************************************************************)
(* C4                                                                      *)
(***************************************************************************)
\* File i reached resolve_extension with a Detected Type equal to its
\* lower-cased Declared Extension, and process_file returned Ok for it.
MatchingType(i) ==
    /\ ~args.ext_only /\ ~entries[i].self /\ Processed(i)
    /\ Detected(i) # None /\ Detected(i) = Declared(i)

\* C4 as stated: a file whose Detected Type equals its lower-cased Declared
\* Extension is accepted with that type, with no mismatch pair and no mismatch
\* prompt, and ends in the moved list under the directory of that type's
\* category (report.pdf starting with %PDF: Documents).
C4_MatchingTypeIsMovedToCategory ==
    \A i \in Files :
      MatchingType(i) =>
        /\ hist[i].conflictPrompts = 0
        /\ hist[i].res = ResolveResult(Detected(i), <<>>)
        /\ MovedTo(i, dir_name(from_ext(Detected(i))))
        /\ Detected(i) = "pdf" => MovedTo(i, "Documents")

\* C4 amended: such a file is accepted with the Detected Type, with no
\* mismatch pair and no mismatch prompt; it is then either moved, and then
\* under the directory of that type's category (Documents for pdf), or, its
\* prefix being classified binary, recorded as skipped by the dry run or by a
\* Skip decision of the binary policy.
C4_MatchingTypeAccepted ==
    \A i \in Files :
      MatchingType(i) =>
        /\ hist[i].conflictPrompts = 0
        /\ hist[i].res = ResolveResult(Detected(i), <<>>)
        /\ \A k \in DOMAIN result.warnings :
             result.warnings[k][1] = "mismatch" => result.warnings[k][2] # i
        /\ \/ /\ MovedTo(i, dir_name(from_ext(Detected(i))))
              /\ Detected(i) = "pdf" => MovedTo(i, "Documents")
              /\ ~InSkipped(i)
           \/ /\ InSkipped(i) /\ ~InMoved(i)
              /\ hist[i].binary = "yes"
              /\ args.dry_run \/ hist[i].action = "Skip"
        /\ \A k \in DOMAIN result.moved :
             result.moved[k][1] = i =>
               result.moved[k][2] = dir_name(from_ext(Detected(i)))

\* REPORT.PDF starting with %PDF was accepted as pdf and moved to Documents.
C4_Witness ==
    \E i \in Files :
      /\ MatchingType(i) /\ entries[i].ext = "PDF"
      /\ hist[i].res.ext = "pdf" /\ hist[i].action = "Process"
      /\ MovedTo(i, "Documents")

(***************************************************************************)
(* C5                                                                      *)
(***************************************************************************)
\* What the first three answers of the mismatch prompt give, and the pair of
\* the fourth.
ConflictOutcomeOK(i) ==
    /\ hist[i].conflictChoice = 0 =>
         /\ hist[i].res = ResolveResult(None, <<>>)
         /\ Processed(i) => InSkipped(i) /\ ~InMoved(i)
    /\ hist[i].conflictChoice = 1 => hist[i].res = ResolveResult(Detected(i), <<>>)
    /\ hist[i].conflictChoice = 2 => hist[i].res = ResolveResult(Declared(i), <<>>)
    /\ hist[i].conflictChoice = 3 =>
         /\ hist[i].res.mismatch = <<Detected(i), Declared(i)>>
         /\ Warned(<<"mismatch", i, Detected(i), Declared(i)>>)

\* C5 as stated: in a live run the four answers of the mismatch prompt give
\* Skip, Accept(detected), Accept(declared), Mismatch(detected, declared), and
\* a file answered with the fourth always ends in the "Check manually" category.
C5_FourthAnswerAlwaysCheckManually ==
    Live =>
      \A i \in Files :
        (hist[i].resolved /\ hist[i].conflictPrompts = 1) =>
          /\ ConflictOutcomeOK(i)
          /\ (hist[i].conflictChoice = 3 /\ Processed(i)) => MovedTo(i, "Check manually")

\* C5 amended: the four answers map as stated; a file answered with the
\* fourth is, when it is moved, moved to "Check manually" and nowhere else,
\* whatever the two type strings are; it is not moved when the binary policy
\* that follows decides Skip for it, and is then recorded as skipped.
C5_FourthAnswerCheckManuallyUnlessSkipped ==
    Live =>
      \A i \in Files :
        (hist[i].resolved /\ hist[i].conflictPrompts = 1) =>
          /\ ConflictOutcomeOK(i)
          /\ hist[i].conflictChoice = 3 =>
               /\ hist[i].moveTo \in {"none", "Check manually"}
               /\ \A k \in DOMAIN result.moved :
                    result.moved[k][1] = i => result.moved[k][2] = "Check manually"
               /\ Processed(i) =>
                    \/ MovedTo(i, "Check manually") /\ ~InSkipped(i)
                    \/ /\ InSkipped(i) /\ ~InMoved(i)
                       /\ hist[i].binary = "yes" /\ hist[i].action = "Skip"

\* A file answered with the fourth choice was moved to "Check manually".
C5_Witness ==
    /\ Live
    /\ \E i \in Files :
         /\ hist[i].conflictChoice = 3 /\ Processed(i)
         /\ MovedTo(i, "Check manually")

(***************************************************************************)
(* C6                                                                      *)
(***************************************************************************)
\* C6: a failed prefix read or a failed prompt ends the batch with the error:
\* the file it happened on is in neither result list, and no later file has
\* been read, resolved, prompted for, moved or skipped.
C6_FailureAbortsBatch ==
    /\ err \in {"read", "prompt"} => pc = "aborted"
    /\ pc = "aborted" =>
         /\ err # "none"
         /\ ~InMoved(cur) /\ ~InSkipped(cur)
         /\ \A j \in Files :
              j > cur => hist[j] = NoHist /\ ~InMoved(j) /\ ~InSkipped(j)

\* The binary-policy prompt failed on a file that has files after it.
C6_Witness ==
    /\ pc = "aborted" /\ err = "prompt"
    /\ cur < Len(entries)
    /\ hist[cur].binaryPrompts = 1 /\ hist[cur].binaryChoice = -1
    /\ hist[cur].reads = 2

(***************************************************************************)
(* C7                                                                      *)
(***************************************************************************)
\* The (action, next state) the four answers of the binary prompt stand for.
ExpectedAnswer(c) ==
    CASE c = 0 -> <<"Skip", "AskEvery">>
      [] c = 1 -> <<"Skip", "SkipAll">>
      [] c = 2 -> <<"Process", "AskEvery">>
      [] c = 3 -> <<"Process", "NeverSkip">>

\* C7: every decision of decide: from AskEvery it prompted exactly once and
\* returned the pair of the answer; from SkipAll it returned (Skip, SkipAll)
\* and from NeverSkip (Process, NeverSkip), both without prompting.
C7_DecideTable ==
    \A i \in Files :
      /\ hist[i].binaryPrompts > 0 => hist[i].decidedFrom = "AskEvery"
      /\ hist[i].action # "none" =>
           LET d == <<hist[i].action, hist[i].decidedTo>>
           IN  /\ hist[i].decidedFrom = "AskEvery" =>
                    /\ hist[i].binaryPrompts = 1
                    /\ hist[i].binaryChoice \in Choices
                    /\ d = ExpectedAnswer(hist[i].binaryChoice)
               /\ hist[i].decidedFrom = "SkipAll" =>
                    hist[i].binaryPrompts = 0 /\ d = <<"Skip", "SkipAll">>
               /\ hist[i].decidedFrom = "NeverSkip" =>
                    hist[i].binaryPrompts = 0 /\ d = <<"Process", "NeverSkip">>

\* One file was decided on the answer "always process", a later one without a
\* prompt from a state an answer had set.
C7_Witness ==
    \E i \in Files : \E j \in Files :
      /\ hist[i].decidedFrom = "AskEvery" /\ hist[i].binaryChoice = 3
      /\ hist[j].decidedFrom = "NeverSkip" /\ hist[j].action = "Process"
      /\ hist[j].binaryPrompts = 0

(***************************************************************************)
(* C8                                                                      *)
(***************************************************************************)
\* C8: the policy starts at AskEvery; a step changes it only when it is the
\* user's answer to the binary-policy prompt; from SkipAll or NeverSkip no
\* step changes it.
C8_PolicyChangesOnlyOnAnswer ==
    /\ policy = "AskEvery"
    /\ [][ /\ policy' # policy =>
                /\ pc = "ask_binary"
                /\ hist[cur].binaryChoice = -1
                /\ hist'[cur].binaryChoice \in Choices
           /\ policy \in {"SkipAll", "NeverSkip"} => policy' = policy ]_vars

\* The batch ended in NeverSkip after an answer, with later files that did
\* not reach the policy prompt.
C8_Witness ==
    /\ pc = "done" /\ policy = "NeverSkip"
    /\ \E i \in Files : \E j \in Files :
         /\ i < j /\ hist[i].binaryChoice = 3
         /\ hist[j].binaryPrompts = 0 /\ hist[j].policyAfter = "NeverSkip"

(***************************************************************************)
(* C9                                                                      *)
(***************************************************************************)
\* Extension-only resolution of file i, once process_file is past it: Accept
\* of the lower-cased extension or "unknown", no pair, handed to the move
\* step with that extension's category.
ExtOnlyResolved(i) ==
    LET e == IF entries[i].ext = None
             THEN "unknown"
             ELSE to_ascii_lowercase(entries[i].ext)
    IN  /\ hist[i].res = ResolveResult(e, <<>>)
        /\ hist[i].moveTo = dir_name(from_ext(e))
        /\ Processed(i) => MovedTo(i, dir_name(from_ext(e))) /\ ~InSkipped(i)

\* No prefix read, no detection, no prompt, policy untouched.
ExtOnlyQuiet ==
    /\ policy = "AskEvery"
    /\ pc \notin {"ask_conflict", "is_binary", "ask_binary"}
    /\ err \in {"none", "move"}
    /\ \A i \in Files :
         /\ hist[i].reads = 0 /\ hist[i].binary = "unknown"
         /\ hist[i].conflictPrompts = 0 /\ hist[i].binaryPrompts = 0

\* File i is past resolution: returned Ok, or failed in the move step.
PastResolve(i) ==
    Processed(i) \/ (i = cur /\ pc = "aborted")

\* C9 as stated: in extension-only mode every file is resolved to Accept of
\* its lower-cased extension (or "unknown") and handed to the move step, with
\* no read, no detection, no prompt and the policy untouched.
C9_ExtOnlyEveryFileAccepted ==
    args.ext_only =>
      /\ ExtOnlyQuiet
      /\ \A i \in Files : PastResolve(i) => ExtOnlyResolved(i)

\* C9 amended: the same for every file other than the running executable
\* itself, which process_file records as skipped before any resolution.
C9_ExtOnlyEveryOtherFileAccepted ==
    args.ext_only =>
      /\ ExtOnlyQuiet
      /\ \A i \in Files :
           PastResolve(i) =>
             IF entries[i].self
             THEN InSkipped(i) /\ ~InMoved(i) /\ ~hist[i].resolved
             ELSE ExtOnlyResolved(i)

\* An upper-case extension and a name without extension went through
\* extension-only mode.
C9_Witness ==
    /\ args.ext_only /\ pc = "done"
    /\ \E i \in Files : entries[i].ext = "PDF" /\ MovedTo(i, "Documents")
    /\ \E i \in Files :
         entries[i].ext = None /\ ~entries[i].self /\ MovedTo(i, "Uncategorized")

(***************************************************************************)
(* C10                                                                     *)
(***************************************************************************)
\* File i went through a dry run with a Detected Type that differs from its
\* Declared Extension.
DryRunMismatch(i) ==
    /\ args.dry_run /\ ~args.ext_only /\ ~entries[i].self /\ Processed(i)
    /\ Detected(i) # None /\ Declared(i) # None /\ Detected(i) # Declared(i)

\* C10 as stated: in a dry run every such file has its pair recorded and is
\* in the would-move list under the category of the Detected Type.
C10_DryRunMismatchWouldMove ==
    \A i \in Files :
      DryRunMismatch(i) =>
        /\ Warned(<<"mismatch", i, Detected(i), Declared(i)>>)
        /\ MovedTo(i, dir_name(from_ext(Detected(i))))

\* C10 amended: every such file has its pair recorded and is resolved to the
\* Detected Type; it is in the would-move list under the category of the
\* Detected Type unless its prefix is classified binary, in which case the
\* dry run records a binary warning and lists it as skipped.
C10_DryRunMismatchWouldMoveUnlessBinary ==
    \A i \in Files :
      DryRunMismatch(i) =>
        /\ Warned(<<"mismatch", i, Detected(i), Declared(i)>>)
        /\ hist[i].res = ResolveResult(Detected(i), <<Detected(i), Declared(i)>>)
        /\ IF IsBinaryFile(i)
           THEN InSkipped(i) /\ ~InMoved(i) /\ Warned(<<"binary", i>>)
           ELSE MovedTo(i, dir_name(from_ext(Detected(i)))) /\ ~InSkipped(i)

\* data.txt holding JSON went through a dry run: pair (json, txt), would move to Code.
C10_Witness ==
    \E i \in Files :
      /\ DryRunMismatch(i) /\ Detected(i) = "json" /\ Declared(i) = "txt"
      /\ Warned(<<"mismatch", i, "json", "txt">>)
      /\ MovedTo(i, "Code")

(***************************************************************************)
(* detect.rs on its own: one file's bytes taken through read_prefix,       *)
(* detect_by_signature_buf and is_binary / looks_binary                    *)
(***************************************************************************)
Repeat(b, n) ==
    [i \in 1..n |-> b]

Input(f, b, n, k, z) ==
    [family |-> f, bytes |-> b, n |-> n, k |-> k, zero |-> z]

\* First four bytes: a box size, RIFF, the ZIP magic, {":, and %PDF, and
\* blanks before a brace.
Heads ==
    { <<0, 0, 0, 24>>, <<82, 73, 70, 70>>, <<80, 75, 3, 4>>,
      <<123, 34, 58, 44>>, <<37, 80, 68, 70>>, <<32, 10, 32, 123>> }

\* Bytes 4..8: ftyp, and two values that are not.
Markers ==
    { <<102, 116, 121, 112>>, <<102, 116, 121, 113>>, <<34, 58, 34, 44>> }

\* Bytes 8..12: the brands of the table, near misses of them, and fourCCs of
\* other formats.
Brands ==
    { <<105, 115, 111, 109>>, <<105, 115, 111, 50>>, <<109, 112, 52, 49>>,
      <<109, 112, 52, 50>>, <<97, 118, 99, 49>>, <<77, 83, 78, 86>>,
      <<109, 112, 55, 49>>, <<77, 52, 86, 32>>, <<77, 52, 65, 32>>,
      <<77, 52, 66, 32>>, <<113, 116, 32, 32>>,
      <<77, 52, 86, 0>>, <<109, 52, 97, 32>>, <<113, 116, 32, 0>>,
      <<87, 69, 66, 80>>, <<87, 65, 86, 69>>, <<0, 0, 0, 0>>, <<51, 103, 112, 52>> }

Tails ==
    { <<>>, <<0, 0, 2, 0>>, <<119, 111, 114, 100, 47>> }

\* Twelve bytes and more, with and without ftyp at offset 4; and the same cut
\* to eleven bytes.
BoxInputs ==
    { Input("box", h \o m \o b \o t, 0, 0, FALSE) :
        h \in Heads, m \in Markers, b \in Brands, t \in Tails }
    \cup
    { Input("box", SubSeq(h \o m \o b, 1, 11), 0, 0, FALSE) :
        h \in Heads, m \in Markers, b \in {<<105, 115, 111, 109>>, <<87, 69, 66, 80>>} }

\* Names a ZIP local file header may carry.
Fragments ==
    { <<>>,
      <<91, 67, 111, 110, 116, 101, 110, 116, 95, 84, 121, 112, 101, 115, 93, 46, 120, 109, 108>>,
      <<119, 111, 114, 100, 47>>,
      <<120, 108, 47>>,
      <<112, 112, 116, 47>>,
      <<65, 110, 100, 114, 111, 105, 100, 77, 97, 110, 105, 102, 101, 115, 116, 46, 120, 109, 108>>,
      <<77, 69, 84, 65, 45, 73, 78, 70, 47>>,
      <<109, 105, 109, 101, 116, 121, 112, 101>> }

\* Header bytes before the first name: none, or enough to push a name to or
\* past the end of the sample.
Pads ==
    { <<>>, Repeat(20, 40), Repeat(20, 57) }

ZipInputs ==
    { Input("zip", <<80, 75, 3, 4>> \o p \o f \o g, 0, 0, FALSE) :
        p \in Pads, f \in Fragments, g \in Fragments }

\* A byte outside {9, 10, 13, 32..126} paired with one inside.
BytePairs ==
    { <<0, 9>>, <<12, 10>>, <<31, 32>>, <<127, 126>>, <<200, 13>> }

\* n bytes of which k are outside the text set, in either order.
HeuristicInputs ==
    { Input("heuristic",
            IF first THEN Repeat(bt[1], k) \o Repeat(bt[2], n - k)
                     ELSE Repeat(bt[2], n - k) \o Repeat(bt[1], k),
            n, k, bt[1] = 0 /\ k > 0) :
        n \in 0..HEADER_CAP, k \in 0..HEADER_CAP, bt \in BytePairs, first \in BOOLEAN }

\* {"a":1,"WEBP":2}, {"a":1}, [1,2], a BOM before {"a":1}, {ab}, blanks only.
JsonInputs ==
    { Input("json", b, 0, 0, FALSE) :
        b \in { <<123, 34, 97, 34, 58, 49, 44, 34, 87, 69, 66, 80, 34, 58, 50, 125>>,
                <<123, 34, 97, 34, 58, 49, 125>>,
                <<91, 49, 44, 50, 93>>,
                <<239, 187, 191, 123, 34, 97, 34, 58, 49, 125>>,
                <<123, 97, 98, 125>>,
                <<32, 10, 9, 32>> } }

Inputs ==
    BoxInputs \cup ZipInputs \cup JsonInputs \cup {x \in HeuristicInputs : x.k <= x.n}

DetectInit ==
    /\ args = [ext_only |-> FALSE, dry_run |-> FALSE]
    /\ entries = <<>>
    /\ idx = 0
    /\ pc = "detect"
    /\ policy = "AskEvery"
    /\ result = [moved |-> <<>>, skipped |-> <<>>, warnings |-> <<>>]
    /\ ext = None
    /\ conflict = <<>>
    /\ err = "none"
    /\ hist = <<>>
    /\ \E x \in Inputs : probe = [NoProbe EXCEPT !.stage = "file", !.input = x]

\* read_prefix(path, HEADER_CAP).
ProbeRead ==
    /\ probe.stage = "file"
    /\ probe' = [probe EXCEPT !.stage = "sampled",
                              !.buf = read_prefix(probe.input.bytes, HEADER_CAP)]
    /\ UNCHANGED <<args, entries, idx, pc, policy, result, ext, conflict, err, hist>>

\* detect_by_signature_buf on the sample.
ProbeDetect ==
    /\ probe.stage = "sampled"
    /\ probe' = [probe EXCEPT !.stage = "detected",
                              !.sig = detect_by_signature_buf(probe.buf)]
    /\ UNCHANGED <<args, entries, idx, pc, policy, result, ext, conflict, err, hist>>

\* is_binary's verdict and looks_binary on the same sample.
ProbeVerdict ==
    /\ probe.stage = "detected"
    /\ probe' = [probe EXCEPT !.stage = "judged",
                              !.bin = is_binary_buf(probe.buf),
                              !.looks = looks_binary(probe.buf)]
    /\ UNCHANGED <<args, entries, idx, pc, policy, result, ext, conflict, err, hist>>

DetectNext ==
    \/ ProbeRead
    \/ ProbeDetect
    \/ ProbeVerdict

DetectSpec ==
    DetectInit /\ [][DetectNext]_vars

(***************************************************************************)
(* C11                                                                     *)
(***************************************************************************)
\* The sample has been through signature detection.
Detects == probe.stage \in {"detected", "judged"}

\* The sample is an ISO-BMFF prefix: twelve bytes or more, "ftyp" at bytes 4..8.
IsFtyp(buf) ==
    Len(buf) >= 12 /\ SubSeq(buf, 5, 8) = <<102, 116, 121, 112>>

\* The type the claim gives for bytes 8..12.
BrandType(b) ==
    CASE b = <<77, 52, 86, 32>> -> "m4v"
      [] b = <<77, 52, 65, 32>> -> "m4a"
      [] b = <<77, 52, 66, 32>> -> "m4b"
      [] b = <<113, 116, 32, 32>> -> "mov"
      [] OTHER -> "mp4"

\* C11: an ISO-BMFF prefix is always detected as the type of its bytes 8..12
\* (m4v, m4a, m4b, mov, else mp4), never as no match, whatever the RIFF, ZIP,
\* JSON and fixed-table detectors would say of it.
C11_FtypIsMp4Family ==
    (Detects /\ IsFtyp(probe.buf)) =>
      /\ probe.sig = BrandType(SubSeq(probe.buf, 9, 12))
      /\ probe.sig \in {"mp4", "m4v", "m4a", "m4b", "mov"}

\* RIFF....ftypWEBP: an unlisted brand under a RIFF head came out as mp4.
C11_Witness ==
    /\ Detects /\ IsFtyp(probe.buf)
    /\ SubSeq(probe.buf, 1, 12) = <<82, 73, 70, 70, 102, 116, 121, 112, 87, 69, 66, 80>>
    /\ probe.sig = "mp4"

(***************************************************************************)
(* C12                                                                     *)
(***************************************************************************)
HasBytes(buf, pat) ==
    \E i \in 1..(Len(buf) - Len(pat) + 1) : SubSeq(buf, i, i + Len(pat) - 1) = pat

\* The first applicable rule of the claim's list.
ZipRule(buf) ==
    IF \/ HasBytes(buf, <<91, 67, 111, 110, 116, 101, 110, 116, 95, 84, 121,
                          112, 101, 115, 93, 46, 120, 109, 108>>)
       \/ HasBytes(buf, <<119, 111, 114, 100, 47>>) THEN "docx"
    ELSE IF HasBytes(buf, <<120, 108, 47>>) THEN "xlsx"
    ELSE IF HasBytes(buf, <<112, 112, 116, 47>>) THEN "pptx"
    ELSE IF HasBytes(buf, <<65, 110, 100, 114, 111, 105, 100, 77, 97, 110, 105,
                            102, 101, 115, 116, 46, 120, 109, 108>>) THEN "apk"
    ELSE IF HasBytes(buf, <<77, 69, 84, 65, 45, 73, 78, 70, 47>>) THEN "jar"
    ELSE "zip"

IsZip(buf) ==
    Len(buf) >= 4 /\ SubSeq(buf, 1, 4) = <<80, 75, 3, 4>>

\* C12 as stated: every sampled prefix that starts with the ZIP magic has the
\* Detected Type of the first applicable rule.
C12_ZipPrefixFollowsRules ==
    (Detects /\ IsZip(probe.buf)) => probe.sig = ZipRule(probe.buf)

\* C12 amended: every sampled prefix that starts with the ZIP magic and is not
\* an ISO-BMFF prefix has the Detected Type of the first applicable rule.
C12_ZipPrefixFollowsRulesUnlessFtyp ==
    (Detects /\ IsZip(probe.buf) /\ ~IsFtyp(probe.buf)) =>
      probe.sig = ZipRule(probe.buf)

\* META-INF/ before xl/ in the bytes: xlsx, by the order of the rules.
C12_Witness ==
    /\ Detects
    /\ probe.buf = <<80, 75, 3, 4, 77, 69, 84, 65, 45, 73, 78, 70, 47, 120, 108, 47>>
    /\ probe.sig = "xlsx"

(***************************************************************************)
(* C13                                                                     *)
(***************************************************************************)
\* C13: on a prefix of n bytes, k of them outside {9, 10, 13, 32..126},
\* looks_binary is true exactly when a byte is zero or 10k > 3n; so never on
\* the empty prefix, always with a zero byte, and not at exactly 30%.
C13_HeuristicThreshold ==
    (probe.stage = "judged" /\ probe.input.family = "heuristic") =>
      /\ Len(probe.buf) = probe.input.n
      /\ probe.looks = (probe.input.zero \/ 10 * probe.input.k > 3 * probe.input.n)
      /\ probe.input.n = 0 => ~probe.looks
      /\ probe.input.zero => probe.looks
      /\ (~probe.input.zero /\ 10 * probe.input.k = 3 * probe.input.n) => ~probe.looks

\* Twenty bytes, six of them DEL, none zero: exactly 30%, not binary.
C13_Witness ==
    /\ probe.stage = "judged" /\ probe.input.family = "heuristic"
    /\ probe.input.n = 20 /\ probe.input.k = 6 /\ ~probe.input.zero
    /\ probe.buf[1] = 127
    /\ ~probe.looks

(***************************************************************************)
(* C14                                                                     *)
(***************************************************************************)
\* C14 as stated: the prefix of a file is read from disk at most once.
C14_PrefixSampledOnce ==
    \A i \in Files : hist[i].reads <= 1

(***************************************************************************)
(* C15                                                                     *)
(***************************************************************************)
\* How often file i is listed in result.moved and in result.skipped.
TimesMoved(i) ==
    Cardinality({k \in DOMAIN result.moved : result.moved[k][1] = i})

TimesSkipped(i) ==
    Cardinality({k \in DOMAIN result.skipped : result.skipped[k] = i})

\* C15: when the batch has finished without error, every enumerated file is
\* listed exactly once, in the moved list (with the directory of the category
\* handed to the move) or in the skipped list, and a file was handed to the
\* move only if it is in the moved list.
C15_EveryFileInExactlyOneList ==
    pc = "done" =>
      /\ idx = Len(entries)
      /\ Len(result.moved) + Len(result.skipped) = Len(entries)
      /\ \A i \in Files :
           /\ TimesMoved(i) + TimesSkipped(i) = 1
           /\ hist[i].moveTo # "none" <=> InMoved(i)
           /\ InMoved(i) => MovedTo(i, hist[i].moveTo)

\* A finished batch with one file moved after a Process decision and one
\* skipped by the policy.
C15_Witness ==
    /\ pc = "done" /\ Len(entries) = 2
    /\ \E i \in Files : \E j \in Files :
         /\ TimesMoved(i) = 1 /\ hist[i].action = "Process"
         /\ TimesSkipped(j) = 1 /\ hist[j].action = "Skip"

(***************************************************************************)
(* C16                                                                     *)
(***************************************************************************)
\* C16 as stated: a prefix detected as json has the binary verdict false.
C16_JsonNeverBinary ==
    (probe.stage = "judged" /\ probe.sig = "json") => ~probe.bin

=============================================================================
